---- MODULE Spec2Model ----
(***************************************************************************)
(* gradio/inputs.py: the deprecated gradio.inputs module.  Fourteen        *)
(* classes, each of which subclasses a class imported from                 *)
(* gradio.components and defines a constructor that calls warnings.warn    *)
(* and then super().__init__ with keyword arguments.  State also defines   *)
(* two methods.                                                            *)
(*                                                                         *)
(* The model follows one interpreter thread: a constructor call binds its  *)
(* arguments (Construct, or CallRejected when binding fails), calls        *)
(* warnings.warn (Warn) and calls the parent constructor (Delegate); a     *)
(* method may then be called on the constructed object (CallMethod).       *)
(* The warning filter, the parent constructor and the parent's methods     *)
(* belong to the environment and are nondeterministic.                     *)
(***************************************************************************)
EXTENDS Naturals, Sequences, FiniteSets, TLC

\* ------------------------------------------------------------------ bounds
\* Constructor calls whose body is entered in one behaviour.
MaxConstructions == 2
\* Arguments the caller supplies in one constructor call, unless it supplies
\* all of them.
MaxSupplied == 1

\* ------------------------------------------------------------------ values
\* A literal written in the source (a default value), by its source text.
Lit(s) == <<"lit", s>>
\* The object a caller passes for parameter p: opaque, tagged by the
\* parameter it was passed as.
Arg(p) == <<"arg", p>>
\* Marks a parameter that has no default.
Required == <<"required", "">>

\* An empty dict / an empty set of keyword arguments.
EmptyArgs == [k \in {} |-> Lit("")]

\* ------------------------------------------------------------------ classes
Classes ==
  {"Textbox", "Number", "Slider", "Checkbox", "CheckboxGroup", "Radio",
   "Dropdown", "Image", "Video", "Audio", "File", "Dataframe", "Timeseries",
   "State"}

\* The names the module imports from gradio.components.
Imports ==
  {"Audio", "Checkbox", "CheckboxGroup", "Component", "Dataframe", "Dropdown",
   "File", "Image", "Number", "Radio", "Slider", "State", "Textbox",
   "Timeseries"}

\* The base named in each class statement, class X(<base>).
BaseName(c) == IF c = "Video" THEN "Component" ELSE c

\* The class object the base name denotes when the class statement runs:
\* the name is looked up among the module's globals, which then hold the
\* imports (the shim of the same name is bound only after the statement).
ParentOf(c) == [module |-> "gradio.components", name |-> BaseName(c)]

\* The signature of each __init__ after self: <<parameter, default>>.
Signature(c) ==
  CASE c = "Textbox" ->
         << <<"lines", Lit("1")>>, <<"placeholder", Lit("None")>>,
            <<"default", Lit("''")>>, <<"numeric", Lit("False")>>,
            <<"type", Lit("'str'")>>, <<"label", Lit("None")>>,
            <<"optional", Lit("False")>> >>
    [] c = "Number" ->
         << <<"default", Lit("None")>>, <<"label", Lit("None")>>,
            <<"optional", Lit("False")>> >>
    [] c = "Slider" ->
         << <<"minimum", Lit("0")>>, <<"maximum", Lit("100")>>,
            <<"step", Lit("None")>>, <<"default", Lit("None")>>,
            <<"label", Lit("None")>>, <<"optional", Lit("False")>> >>
    [] c = "Checkbox" ->
         << <<"default", Lit("False")>>, <<"label", Lit("None")>>,
            <<"optional", Lit("False")>> >>
    [] c = "CheckboxGroup" ->
         << <<"choices", Required>>, <<"default", Lit("[]")>>,
            <<"type", Lit("'value'")>>, <<"label", Lit("None")>>,
            <<"optional", Lit("False")>> >>
    [] c \in {"Radio", "Dropdown"} ->
         << <<"choices", Required>>, <<"type", Lit("'value'")>>,
            <<"default", Lit("None")>>, <<"label", Lit("None")>>,
            <<"optional", Lit("False")>> >>
    [] c = "Image" ->
         << <<"shape", Lit("None")>>, <<"image_mode", Lit("'RGB'")>>,
            <<"invert_colors", Lit("False")>>, <<"source", Lit("'upload'")>>,
            <<"tool", Lit("'editor'")>>, <<"type", Lit("'numpy'")>>,
            <<"label", Lit("None")>>, <<"optional", Lit("False")>> >>
    [] c = "Video" ->
         << <<"type", Lit("None")>>, <<"source", Lit("'upload'")>>,
            <<"label", Lit("None")>>, <<"optional", Lit("False")>> >>
    [] c = "Audio" ->
         << <<"source", Lit("'upload'")>>, <<"type", Lit("'numpy'")>>,
            <<"label", Lit("None")>>, <<"optional", Lit("False")>> >>
    [] c = "File" ->
         << <<"file_count", Lit("'single'")>>, <<"type", Lit("'file'")>>,
            <<"label", Lit("None")>>, <<"keep_filename", Lit("True")>>,
            <<"optional", Lit("False")>> >>
    [] c = "Dataframe" ->
         << <<"headers", Lit("None")>>, <<"row_count", Lit("3")>>,
            <<"col_count", Lit("3")>>, <<"datatype", Lit("'str'")>>,
            <<"col_width", Lit("None")>>, <<"default", Lit("None")>>,
            <<"type", Lit("'pandas'")>>, <<"label", Lit("None")>>,
            <<"optional", Lit("False")>> >>
    [] c = "Timeseries" ->
         << <<"x", Lit("None")>>, <<"y", Lit("None")>>,
            <<"label", Lit("None")>>, <<"optional", Lit("False")>> >>
    [] c = "State" ->
         << <<"label", Lit("None")>>, <<"default", Lit("None")>>,
            <<"optional", Lit("False")>> >>

\* SuperCall with the keyword "value" in place of "default".
SuperCall_Renamed(c) ==
  [i \in DOMAIN Signature(c) |->
     <<IF Signature(c)[i][1] = "default" THEN "value" ELSE Signature(c)[i][1],
       Signature(c)[i][1]>>]

\* The keyword arguments of each super().__init__ call, in source order:
\* <<keyword, local variable whose value is passed>>.
SuperCall(c) ==
  CASE c = "Textbox" ->
         << <<"lines", "lines">>, <<"placeholder", "placeholder">>,
            <<"default", "default">>, <<"numeric", "numeric">>,
            <<"type", "type">>, <<"label", "label">>,
            <<"optional", "optional">> >>
    [] c = "Number" ->
         << <<"default", "default">>, <<"label", "label">>,
            <<"optional", "optional">> >>
    [] c = "Slider" ->
         << <<"label", "label">>, <<"minimum", "minimum">>,
            <<"maximum", "maximum">>, <<"step", "step">>,
            <<"default", "default">>, <<"optional", "optional">> >>
    [] c = "Checkbox" ->
         << <<"label", "label">>, <<"default", "default">>,
            <<"optional", "optional">> >>
    [] c = "CheckboxGroup" ->
         << <<"choices", "choices">>, <<"default", "default">>,
            <<"type", "type">>, <<"label", "label">>,
            <<"optional", "optional">> >>
    [] c \in {"Radio", "Dropdown"} ->
         << <<"choices", "choices">>, <<"type", "type">>,
            <<"default", "default">>, <<"label", "label">>,
            <<"optional", "optional">> >>
    [] c = "Image" ->
         << <<"shape", "shape">>, <<"image_mode", "image_mode">>,
            <<"invert_colors", "invert_colors">>, <<"source", "source">>,
            <<"tool", "tool">>, <<"type", "type">>, <<"label", "label">>,
            <<"optional", "optional">> >>
    [] c = "Video" ->
         << <<"type", "type">>, <<"source", "source">>,
            <<"label", "label">>, <<"optional", "optional">> >>
    [] c = "Audio" ->
         << <<"source", "source">>, <<"type", "type">>,
            <<"label", "label">>, <<"optional", "optional">> >>
    [] c = "File" ->
         << <<"file_count", "file_count">>, <<"type", "type">>,
            <<"label", "label">>, <<"keep_filename", "keep_filename">>,
            <<"optional", "optional">> >>
    [] c = "Dataframe" ->
         << <<"headers", "headers">>, <<"row_count", "row_count">>,
            <<"col_count", "col_count">>, <<"datatype", "datatype">>,
            <<"col_width", "col_width">>, <<"default", "default">>,
            <<"type", "type">>, <<"label", "label">>,
            <<"optional", "optional">> >>
    [] c = "Timeseries" ->
         << <<"x", "x">>, <<"y", "y">>, <<"label", "label">>,
            <<"optional", "optional">> >>
    [] c = "State" ->
         << <<"label", "label">>, <<"default", "default">>,
            <<"optional", "optional">> >>

\* The line of each constructor's warnings.warn call (the place a warning
\* record carries, stacklevel 1).
WarnLine(c) ==
  CASE c = "Textbox" -> 54
    [] c = "Number" -> 88
    [] c = "Slider" -> 120
    [] c = "Checkbox" -> 154
    [] c = "CheckboxGroup" -> 184
    [] c = "Radio" -> 216
    [] c = "Dropdown" -> 248
    [] c = "Image" -> 286
    [] c = "Video" -> 324
    [] c = "Audio" -> 352
    [] c = "File" -> 382
    [] c = "Dataframe" -> 426
    [] c = "Timeseries" -> 464
    [] c = "State" -> 490

\* The message of each warning, cut into its phrases.  Textbox to Image say
\* "component", Video to State say "components".
WarnMessage(c) ==
  << "Usage of gradio.inputs is deprecated",
     "and will not be supported in the future",
     IF c \in {"Textbox", "Number", "Slider", "Checkbox", "CheckboxGroup",
               "Radio", "Dropdown", "Image"}
       THEN "please import your component from"
       ELSE "please import your components from",
     "gradio.components" >>

\* WarningOf without the category argument (warnings.warn then uses
\* UserWarning).
WarningOf_NoCategory(c) ==
  [category |-> "UserWarning",
   message  |-> WarnMessage(c),
   lineno   |-> WarnLine(c)]

\* The warning a constructor hands to warnings.warn.
WarningOf(c) ==
  [category |-> "DeprecationWarning",
   message  |-> WarnMessage(c),
   lineno   |-> WarnLine(c)]

\* The methods each class body defines besides __init__.
OwnMethods(c) ==
  IF c = "State"
    THEN {"get_template_context", "get_shortcut_implementations"}
    ELSE {}

\* ------------------------------------------------------------------ helpers
\* The signatures as a table: for each class, parameter |-> default.
Defaults ==
  [c \in Classes |->
     [p \in {Signature(c)[i][1] : i \in DOMAIN Signature(c)} |->
        Signature(c)[CHOOSE j \in DOMAIN Signature(c) :
                       Signature(c)[j][1] = p][2]]]

ParamNames(c) == DOMAIN Defaults[c]

DefaultOf(c, p) == Defaults[c][p]

RequiredParams(c) == {p \in ParamNames(c) : DefaultOf(c, p) = Required}

\* Bind with None for every omitted parameter.
Bind_OmittedAsNone(c, given) ==
  [p \in ParamNames(c) |->
     IF p \in DOMAIN given THEN given[p] ELSE Lit("None")]

\* Python's argument binding: a supplied parameter takes the caller's value,
\* an omitted one its declared default.
Bind(c, given) ==
  [p \in ParamNames(c) |->
     IF p \in DOMAIN given THEN given[p] ELSE DefaultOf(c, p)]

\* The super().__init__ calls as a table: for each class, keyword |-> the
\* local variable whose value is passed.
KeywordLocals ==
  [c \in Classes |->
     [k \in {SuperCall(c)[i][1] : i \in DOMAIN SuperCall(c)} |->
        SuperCall(c)[CHOOSE j \in DOMAIN SuperCall(c) :
                       SuperCall(c)[j][1] = k][2]]]

Keywords(c) == DOMAIN KeywordLocals[c]

LocalOf(c, k) == KeywordLocals[c][k]

\* SuperKwargs with label=None in place of label=label.
SuperKwargs_LabelNone(c, vars_) ==
  [k \in Keywords(c) |->
     IF k = "label" THEN Lit("None") ELSE vars_[LocalOf(c, k)]]

\* SuperKwargs without the optional keyword.
SuperKwargs_DropOptional(c, vars_) ==
  [k \in Keywords(c) \ {"optional"} |-> vars_[LocalOf(c, k)]]

\* SuperKwargs without the keep_filename keyword.
SuperKwargs_DropKeepFilename(c, vars_) ==
  [k \in Keywords(c) \ {"keep_filename"} |-> vars_[LocalOf(c, k)]]

\* The keyword arguments super().__init__ receives, given the constructor's
\* local variables.
SuperKwargs(c, vars_) == [k \in Keywords(c) |-> vars_[LocalOf(c, k)]]

\* For each keyword of the super().__init__ call, the local it was read from.
SuperVia(c) == KeywordLocals[c]

\* The argument sets a caller may supply: at most MaxSupplied parameters,
\* or every parameter.
SuppliedSets(c) ==
  {S \in SUBSET ParamNames(c) : Cardinality(S) <= MaxSupplied}
    \cup {ParamNames(c)}

\* The keyword arguments of a call that supplies the parameters of S.
Given(S) == [p \in S |-> Arg(p)]

\* The constructor calls of the model, <<class, supplied parameters>>:
\* those whose arguments bind, and those that lack a required parameter.
Calls == UNION {{<<c, S>> : S \in SuppliedSets(c)} : c \in Classes}

AcceptedCalls == {call \in Calls : RequiredParams(call[1]) \subseteq call[2]}

RejectedCalls == Calls \ AcceptedCalls

\* The local variables of the constructor body for each accepted call.
BoundLocals == [call \in AcceptedCalls |-> Bind(call[1], Given(call[2]))]

\* ------------------------------------------------------------------ methods
\* The operations called on a constructed component: the two that State
\* defines, and one that no class of the module defines.
Operations == {"get_template_context", "get_shortcut_implementations",
               "preprocess"}

\* What the parent's implementation of an operation may return (the parent
\* is gradio.components code): for get_template_context a dict without or
\* with a "default" entry.
ParentResults(m) ==
  CASE m = "get_template_context" ->
         {[k \in {"label"} |-> Lit("parent")],
          [k \in {"label", "default"} |-> Lit("parent")]}
    [] m = "get_shortcut_implementations" ->
         {EmptyArgs, [k \in {"state"} |-> Lit("{}")]}
    [] m = "preprocess" ->
         {[k \in {"value"} |-> Lit("parent")]}

\* StateTemplateContext with the two parts of the dict display swapped.
StateTemplateContext_DefaultLast(selfDefault, parentContext) ==
  [k \in {"default"} \cup DOMAIN parentContext |->
     IF k = "default" THEN selfDefault ELSE parentContext[k]]

\* {"default": self.default, **super().get_template_context()}: a later
\* entry of a dict display replaces an earlier one of the same key.
StateTemplateContext(selfDefault, parentContext) ==
  [k \in {"default"} \cup DOMAIN parentContext |->
     IF k \in DOMAIN parentContext THEN parentContext[k] ELSE selfDefault]

\* {"state": {}}
StateShortcutImplementations == [k \in {"state"} |-> Lit("{}")]

\* Attribute lookup on a shim class: the class's own definition first, the
\* parent's otherwise.
Resolve(c, m) == IF m \in OwnMethods(c) THEN "shim" ELSE "parent"

\* The result of calling operation m on an instance of shim class c.
MethodResult(c, m, selfDefault, parentResult) ==
  IF Resolve(c, m) = "parent" THEN parentResult
  ELSE IF m = "get_template_context"
         THEN StateTemplateContext(selfDefault, parentResult)
         ELSE StateShortcutImplementations

\* ------------------------------------------------------------------ state
VARIABLES
  filter,       \* the warnings filter's action for DeprecationWarning
  pc,           \* "idle", "warn" (body entered), "super" (warning returned)
  cls,          \* the class of the current (or last) constructor call
  supplied,     \* the arguments the caller supplied
  locals,       \* the constructor's local variables after binding
  trace,        \* the calls the current constructor body has made, in order
  outcome,      \* how the current (or last) constructor call ended
  parentCall,   \* the super().__init__ call of the current constructor
  constructed,  \* the classes whose constructor body was entered, in order
  warningsLog,  \* the warnings handed to warnings.warn, in order
  dispatch      \* the last method call on the constructed object

vars == <<filter, pc, cls, supplied, locals, trace, outcome, parentCall,
          constructed, warningsLog, dispatch>>

NoCall ==
  [target |-> [module |-> "", name |-> ""],
   kwargs |-> EmptyArgs,
   via    |-> [k \in {} |-> ""]]

NoDispatch ==
  [method |-> "", impl |-> "", selfDefault |-> Lit(""),
   parent |-> EmptyArgs, result |-> EmptyArgs]

Init ==
  /\ filter \in {"default", "error"}
  /\ pc = "idle"
  /\ cls = "none"
  /\ supplied = EmptyArgs
  /\ locals = EmptyArgs
  /\ trace = <<>>
  /\ outcome = "none"
  /\ parentCall = NoCall
  /\ constructed = <<>>
  /\ warningsLog = <<>>
  /\ dispatch = NoDispatch

\* X(...) with every required parameter supplied: the arguments are bound
\* and the body of __init__ is entered.
Construct ==
  /\ pc = "idle"
  /\ Len(constructed) < MaxConstructions
  /\ \E call \in AcceptedCalls :
       /\ cls' = call[1]
       /\ supplied' = Given(call[2])
       /\ locals' = BoundLocals[call]
       /\ constructed' = Append(constructed, call[1])
  /\ trace' = <<>>
  /\ outcome' = "running"
  /\ parentCall' = NoCall
  /\ dispatch' = NoDispatch
  /\ pc' = "warn"
  /\ UNCHANGED <<filter, warningsLog>>

\* X(...) without a required parameter: binding raises TypeError and the
\* body of __init__ is never entered.
CallRejected ==
  /\ pc = "idle"
  /\ Len(constructed) < MaxConstructions
  /\ \E call \in RejectedCalls :
       /\ cls' = call[1]
       /\ supplied' = Given(call[2])
  /\ locals' = EmptyArgs
  /\ trace' = <<>>
  /\ outcome' = "type_error"
  /\ parentCall' = NoCall
  /\ dispatch' = NoDispatch
  /\ UNCHANGED <<filter, pc, constructed, warningsLog>>

\* warnings.warn(message, DeprecationWarning): the warning is issued; under
\* an "error" filter the call raises it and the constructor is left.
Warn ==
  /\ pc = "warn"
  /\ warningsLog' = Append(warningsLog, WarningOf(cls))
  /\ trace' = Append(trace, "warn")
  /\ IF filter = "error"
       THEN /\ pc' = "idle"
            /\ outcome' = "warn_raised"
       ELSE /\ pc' = "super"
            /\ outcome' = outcome
  /\ UNCHANGED <<filter, cls, supplied, locals, parentCall, constructed,
                 dispatch>>

\* Delegate callable before the warning as well.
Delegate_BeforeWarn ==
  /\ pc \in {"warn", "super"}
  /\ parentCall' = [target |-> ParentOf(cls),
                    kwargs |-> SuperKwargs(cls, locals),
                    via    |-> SuperVia(cls)]
  /\ trace' = Append(trace, "super")
  /\ \E r \in {"ok", "super_raised"} : outcome' = r
  /\ pc' = "idle"
  /\ UNCHANGED <<filter, cls, supplied, locals, constructed, warningsLog,
                 dispatch>>

\* super().__init__(keyword=local, ...): the parent constructor is called;
\* it returns or raises, and the constructor body ends with it.
Delegate ==
  /\ pc = "super"
  /\ parentCall' = [target |-> ParentOf(cls),
                    kwargs |-> SuperKwargs(cls, locals),
                    via    |-> SuperVia(cls)]
  /\ trace' = Append(trace, "super")
  /\ \E r \in {"ok", "super_raised"} : outcome' = r
  /\ pc' = "idle"
  /\ UNCHANGED <<filter, cls, supplied, locals, constructed, warningsLog,
                 dispatch>>

\* obj.m() on the object the last constructor call returned.  self.default
\* is whatever the parent constructor left there: the value it was passed,
\* or None.
CallMethod(m) ==
  /\ pc = "idle"
  /\ outcome = "ok"
  /\ \E pr \in ParentResults(m) :
       \E d \in IF Resolve(cls, m) = "shim" /\ m = "get_template_context"
                  THEN {parentCall.kwargs["default"], Lit("None")}
                  ELSE {Lit("")} :
         dispatch' = [method      |-> m,
                      impl        |-> Resolve(cls, m),
                      selfDefault |-> d,
                      parent      |-> pr,
                      result      |-> MethodResult(cls, m, d, pr)]
  /\ UNCHANGED <<filter, pc, cls, supplied, locals, trace, outcome,
                 parentCall, constructed, warningsLog>>

Next ==
  \/ Construct
  \/ CallRejected
  \/ Warn
  \/ Delegate
  \/ \E m \in Operations : CallMethod(m)

Spec == Init /\ [][Next]_vars

\* ------------------------------------------------------------------ properties
\* The parent constructor has been called in the current constructor call.
Delegated == parentCall # NoCall

\* The sibling of the current call: the same class and arguments, except
\* that parameter p is supplied with value v.
SiblingKwargs(p, v) ==
  SuperKwargs(cls, Bind(cls, [q \in DOMAIN supplied \cup {p} |->
                                IF q = p THEN v ELSE supplied[q]]))

BoolValues == {Lit("True"), Lit("False")}

\* C1: every constructor body that is entered issues exactly one warning,
\* of category DeprecationWarning, whose message says that usage of
\* gradio.inputs is deprecated and names gradio.components; after n
\* constructions n warnings have been issued, the i-th by the i-th
\* construction.
C1_OneWarningPerConstruction ==
  /\ Len(warningsLog) + (IF pc = "warn" THEN 1 ELSE 0) = Len(constructed)
  /\ \A i \in DOMAIN warningsLog :
       /\ warningsLog[i].category = "DeprecationWarning"
       /\ warningsLog[i].message[1] = "Usage of gradio.inputs is deprecated"
       /\ warningsLog[i].message[Len(warningsLog[i].message)]
            = "gradio.components"
       /\ warningsLog[i].lineno = WarnLine(constructed[i])

\* Two constructions of classes with the two wordings of the message are
\* over, and two warnings have been issued.
C1_Witness ==
  /\ pc = "idle"
  /\ constructed = <<"Video", "Textbox">>
  /\ Len(warningsLog) = 2
  /\ outcome = "ok"

\* C2: a constructor calls the parent constructor at most once, and exactly
\* once when its warning call returned; the call's keywords are exactly the
\* constructor's parameters, and each supplied argument is passed under its
\* own name with the caller's value.
C2_ForwardsAcceptedArguments ==
  /\ Len(SelectSeq(trace, LAMBDA e : e = "super")) <= 1
  /\ outcome \in {"ok", "super_raised"} =>
       /\ Len(SelectSeq(trace, LAMBDA e : e = "super")) = 1
       /\ DOMAIN parentCall.kwargs = ParamNames(cls)
       /\ \A p \in DOMAIN supplied : parentCall.kwargs[p] = supplied[p]

\* Dataframe was called with all nine arguments and has delegated.
C2_Witness ==
  /\ cls = "Dataframe"
  /\ outcome = "ok"
  /\ Cardinality(DOMAIN supplied) = 9
  /\ Delegated

\* C3: a constructor body calls warnings.warn, then super().__init__, and
\* nothing else; a construction whose parent constructor raised has issued
\* its warning, and one whose warning call raised has not called the parent
\* constructor.
C3_WarnThenDelegate ==
  /\ trace \in {<<>>, <<"warn">>, <<"warn", "super">>}
  /\ pc = "super" => trace = <<"warn">>
  /\ outcome = "ok" => trace = <<"warn", "super">>
  /\ outcome = "super_raised" =>
       /\ trace = <<"warn", "super">>
       /\ Len(warningsLog) = Len(constructed)
       /\ warningsLog[Len(warningsLog)] = WarningOf(cls)
  /\ outcome = "warn_raised" =>
       /\ trace = <<"warn">>
       /\ ~ Delegated

\* The parent constructor of a Slider raised, after the warning.
C3_Witness ==
  /\ cls = "Slider"
  /\ outcome = "super_raised"
  /\ Len(warningsLog) = 1

\* C4: every class delegates to the class of its own name imported from
\* gradio.components.
C4_ParentHasSameName ==
  Delegated =>
    /\ cls \in Imports
    /\ parentCall.target = [module |-> "gradio.components", name |-> cls]

\* C5 as claimed: every operation other than construction runs the
\* parent's implementation and gives its result.
C5_NoOwnBehaviour ==
  dispatch # NoDispatch =>
    /\ dispatch.impl = "parent"
    /\ dispatch.result = dispatch.parent

\* C5, amended: every class but State runs the parent's implementation of
\* every operation and gives its result.  State runs its own
\* get_template_context, which gives the parent's context plus a "default"
\* entry holding self.default when the parent's context has none, and its
\* own get_shortcut_implementations, which gives {"state": {}}.
C5_OnlyStateOverrides ==
  dispatch # NoDispatch =>
    IF cls = "State" /\ dispatch.method = "get_template_context"
      THEN /\ dispatch.impl = "shim"
           /\ DOMAIN dispatch.result = DOMAIN dispatch.parent \cup {"default"}
           /\ \A k \in DOMAIN dispatch.parent :
                dispatch.result[k] = dispatch.parent[k]
           /\ "default" \notin DOMAIN dispatch.parent =>
                dispatch.result["default"] = dispatch.selfDefault
    ELSE IF cls = "State" /\ dispatch.method = "get_shortcut_implementations"
      THEN /\ dispatch.impl = "shim"
           /\ DOMAIN dispatch.result = {"state"}
           /\ dispatch.result["state"] = Lit("{}")
    ELSE /\ dispatch.impl = "parent"
         /\ dispatch.result = dispatch.parent

\* State's get_template_context was called on an object whose parent
\* context has a "default" entry that differs from self.default.
C5_Witness ==
  /\ cls = "State"
  /\ dispatch.method = "get_template_context"
  /\ "default" \in DOMAIN dispatch.parent
  /\ dispatch.parent["default"] # dispatch.selfDefault

OptionalIgnoredClasses ==
  {"Slider", "Checkbox", "CheckboxGroup", "Radio", "Dropdown", "Dataframe",
   "State"}

C8_SomeRename ==
  Delegated =>
    \E c \in Classes : \E k \in Keywords(c) : LocalOf(c, k) # k

\* C8, amended: no constructor renames; every keyword of every parent call
\* is the name of the local variable it is read from.
C8_NoRename ==
  Delegated =>
    \A k \in DOMAIN parentCall.via : parentCall.via[k] = k

\* State, the last class of the module, has delegated with its three
\* keywords.
C8_Witness ==
  /\ cls = "State"
  /\ Delegated
  /\ DOMAIN parentCall.via = {"label", "default", "optional"}

\* C9: every parameter the caller omits is passed to the parent constructor
\* all the same, with the default of the constructor's own signature.
C9_OmittedPassedWithDefault ==
  outcome \in {"ok", "super_raised"} =>
    /\ ParamNames(cls) \subseteq DOMAIN parentCall.kwargs
    /\ \A p \in ParamNames(cls) \ DOMAIN supplied :
         parentCall.kwargs[p] = DefaultOf(cls, p)
    /\ "optional" \notin DOMAIN supplied =>
         parentCall.kwargs["optional"] = Lit("False")
    /\ (cls = "Slider" /\ supplied = EmptyArgs) =>
         /\ parentCall.kwargs["minimum"] = Lit("0")
         /\ parentCall.kwargs["maximum"] = Lit("100")
         /\ parentCall.kwargs["step"] = Lit("None")
    /\ (cls = "Dataframe" /\ supplied = EmptyArgs) =>
         /\ parentCall.kwargs["row_count"] = Lit("3")
         /\ parentCall.kwargs["col_count"] = Lit("3")
         /\ parentCall.kwargs["type"] = Lit("'pandas'")

\* Dataframe() was called with no arguments and has delegated.
C9_Witness ==
  /\ cls = "Dataframe"
  /\ supplied = EmptyArgs
  /\ outcome = "ok"
  /\ DOMAIN parentCall.kwargs = ParamNames("Dataframe")

====
